---- MODULE Spec2Model ----
(***************************************************************************)
(* Model of p5/sketch/base.py: the frame pump update(dt), the one-time     *)
(* setup hook, the rate-gated draw hook, the queue of deferred input       *)
(* callbacks, and the imperative controls (no_loop, loop, redraw,          *)
(* set_frame_rate, size, title, run).                                      *)
(*                                                                         *)
(* Time is counted in hundredths of a second (OneSecond == 100), frame     *)
(* rates passed to set_frame_rate and sizes passed to size in tenths, so   *)
(* that int() has something to truncate.  A hook (setup, draw, a queued    *)
(* callback) is user code: while it runs the model may call any control,   *)
(* and it ends by returning or by raising.  update is therefore split at   *)
(* its calls into user code; pc is the position of the timer thread.       *)
(***************************************************************************)
EXTENDS Integers, Sequences, FiniteSets, TLC

\* ---------------------------------------------------------------- bounds
MaxFrames == 3
MaxEvents == 2
MaxRaises == 1

\* ---------------------------------------------------------------- inputs
OneSecond == 100
DtValues == {5, 11}
FmValues == {100}
SizeArgs == {<<3005, 2000>>}
TitleArgs == {<<"int", "42">>}
\* for the settings alone (SpecControls)
RateArgs == {-50, 0, 5, 100, 455, 457, 604}
CursorArgs == {"ARROW", "CROSS", "HAND", "MOVE", "TEXT", "WAIT", "BOGUS"}

\* ---------------------------------------------------------------- defaults
DefaultWidth == 200
DefaultHeight == 200
DefaultTargetFrameRate == 60

VARIABLES
    \* module state of base.py
    width, height, title, frame_count,
    handler_queue, looping, redraw, setup_done,
    target_frame_rate, time_since_last_frame,
    \* collaborators: the window and the clock
    window, interval,
    \* the timer thread: position inside update, index of the for loop
    pc, drain_index,
    \* history: what was called, for stating the claims
    tick_calls, tick_dispatched, setup_calls, draw_calls, raises,
    dispatch_count, appended, redraw_called, requested_since_draw,
                   pending_request

progvars == <<width, height, title, frame_count, handler_queue,
              looping, redraw, setup_done, target_frame_rate,
              time_since_last_frame, window, interval, pc, drain_index>>
histvars == <<tick_calls, tick_dispatched, setup_calls, draw_calls, raises,
              dispatch_count, appended, redraw_called, requested_since_draw,
                   pending_request>>
vars == <<progvars, histvars>>

\* ---------------------------------------------------------------- helpers

\* int(x) of a number given in tenths: truncation toward zero.
IntOfTenths(x) == IF x >= 0 THEN x \div 10 ELSE -((-x) \div 10)

Max(a, b) == IF a >= b THEN a ELSE b

\* Python truth value of the module global `redraw`, which holds the
\* function object redraw itself until update or redraw() assigns a bool.
Truthy(v) == v # "False"

\* str(new_title)
Str(v) == <<"str", v[2]>>

\* line 222 with >= in place of >
correct_frame_rate_eq(t, rate) == t * rate >= OneSecond

\* line 222: time_since_last_frame > 1.0 / target_frame_rate
correct_frame_rate(t, rate) == t * rate > OneSecond

\* line 230: looping or redraw
should_draw_flag_only(l, r) == Truthy(r)
should_draw(l, r) == l \/ Truthy(r)

\* line 247: max(1, int(fm))
NewTargetFrameRate(fm) == Max(1, IntOfTenths(fm))

TotalRaises == raises["setup"] + raises["draw"] + raises["handler"]

\* ---------------------------------------------------------------- Init
Init ==
    /\ width = DefaultWidth
    /\ height = DefaultHeight
    /\ title = <<"str", "p5">>
    /\ frame_count = -1
    /\ handler_queue = <<>>
    /\ looping = TRUE
    /\ redraw = "function"
    /\ setup_done = FALSE
    /\ target_frame_rate = DefaultTargetFrameRate
    /\ time_since_last_frame = 0
    /\ window = [size |-> <<DefaultWidth * 10, DefaultHeight * 10>>,
                 caption |-> <<"str", "p5">>,
                 mouse_visible |-> TRUE,
                 mouse_cursor |-> <<"cursor", "none">>,
                 calls |-> <<>>]
    /\ interval = <<0, 0>>
    /\ pc = "init"
    /\ drain_index = 0
    /\ tick_calls = <<>>
    /\ tick_dispatched = <<>>
    /\ setup_calls = 0
    /\ draw_calls = 0
    /\ raises = [h \in {"setup", "draw", "handler"} |-> 0]
    /\ dispatch_count = [e \in 1..MaxEvents |-> 0]
    /\ appended = 0
    /\ redraw_called = FALSE
    /\ requested_since_draw = FALSE
    /\ pending_request = FALSE

\* User code runs at top level before run(), inside a hook, or between ticks.
InUserCode == pc \in {"init", "idle", "setup", "draw", "handler"}


\* ---------------------------------------------------------------- controls

\* lines 108-119
no_loop ==
    /\ InUserCode
    /\ looping' = FALSE
    /\ UNCHANGED <<width, height, title, frame_count, handler_queue,
                   redraw, setup_done, target_frame_rate, time_since_last_frame,
                   window, interval, pc, drain_index>>
    /\ UNCHANGED histvars

\* lines 121-129
loop ==
    /\ InUserCode
    /\ looping' = TRUE
    /\ UNCHANGED <<width, height, title, frame_count, handler_queue,
                   redraw, setup_done, target_frame_rate, time_since_last_frame,
                   window, interval, pc, drain_index>>
    /\ UNCHANGED histvars

\* lines 131-140: the function redraw(); it rebinds the global of its own name
call_redraw ==
    /\ InUserCode
    /\ redraw' = IF ~looping THEN "True" ELSE redraw
    /\ redraw_called' = TRUE
    /\ requested_since_draw' = IF ~looping THEN TRUE ELSE requested_since_draw
    /\ pending_request' = IF ~looping THEN TRUE ELSE pending_request
    /\ UNCHANGED <<width, height, title, frame_count, handler_queue,
                   looping, setup_done, target_frame_rate, time_since_last_frame,
                   window, interval, pc, drain_index>>
    /\ UNCHANGED <<tick_calls, tick_dispatched, setup_calls, draw_calls, raises,
                   dispatch_count, appended>>

\* lines 142-154: w and h in tenths; the window is handed the raw arguments
size(w, h) ==
    /\ InUserCode
    /\ width' = IntOfTenths(w)
    /\ height' = IntOfTenths(h)
    /\ window' = [window EXCEPT !.size = <<w, h>>]
    /\ UNCHANGED <<title, frame_count, handler_queue, looping, redraw,
                   setup_done, target_frame_rate, time_since_last_frame,
                   interval, pc, drain_index>>
    /\ UNCHANGED histvars

\* lines 156-164
set_title(new_title) ==
    /\ InUserCode
    /\ title' = new_title
    /\ window' = [window EXCEPT !.caption = Str(new_title)]
    /\ UNCHANGED <<width, height, frame_count, handler_queue, looping,
                   redraw, setup_done, target_frame_rate, time_since_last_frame,
                   interval, pc, drain_index>>
    /\ UNCHANGED histvars

\* lines 245-247
set_frame_rate(fm) ==
    /\ InUserCode
    /\ target_frame_rate' = NewTargetFrameRate(fm)
    /\ UNCHANGED <<width, height, title, frame_count, handler_queue,
                   looping, redraw, setup_done, time_since_last_frame,
                   window, interval, pc, drain_index>>
    /\ UNCHANGED histvars

\* lines 166-169
no_cursor ==
    /\ InUserCode
    /\ window' = [window EXCEPT !.mouse_visible = FALSE,
                                !.calls = <<<<"set_mouse_visible", <<"bool", "False">>>>>>]
    /\ UNCHANGED <<width, height, title, frame_count, handler_queue, looping,
                   redraw, setup_done, target_frame_rate, time_since_last_frame,
                   interval, pc, drain_index>>
    /\ UNCHANGED histvars

\* lines 180-187: the values of cursor_map are constants of the window class
cursor_map ==
    [k \in {"ARROW", "CROSS", "HAND", "MOVE", "TEXT", "WAIT"} |->
        <<"window", CASE k = "ARROW" -> "CURSOR_DEFAULT"
                      [] k = "CROSS" -> "CURSOR_CROSSHAIR"
                      [] k = "HAND" -> "CURSOR_HAND"
                      [] k = "MOVE" -> "CURSOR_SIZE"
                      [] k = "TEXT" -> "CURSOR_TEXT"
                      [] k = "WAIT" -> "CURSOR_WAIT">>]

\* line 188: cursor_map.get(cursor_type, 'ARROW'); the default is the string
\* 'ARROW' itself, not the constant it is the key of
selected_cursor(cursor_type) ==
    IF cursor_type \in DOMAIN cursor_map THEN cursor_map[cursor_type]
    ELSE <<"str", "ARROW">>

\* window.get_system_mouse_cursor(name) returns a cursor for a constant of the
\* window class; for any other name what it does is the window's business:
\* it returns some cursor (found TRUE) or raises (found FALSE)
KnownToWindow(name) == name[1] = "window"

\* lines 171-191; a raise of line 189 leaves lines 190-191 undone
cursor(cursor_type, found) ==
    /\ InUserCode
    /\ LET selected == selected_cursor(cursor_type)
           resource == <<"cursor", selected[2]>>
       IN /\ KnownToWindow(selected) => found
          /\ window' =
               IF found
               THEN [window EXCEPT
                       !.mouse_visible = TRUE,
                       !.mouse_cursor = resource,
                       !.calls = << <<"get_system_mouse_cursor", selected>>,
                                    <<"set_mouse_visible", <<"bool", "True">>>>,
                                    <<"set_mouse_cursor", resource>> >>]
               ELSE [window EXCEPT
                       !.calls = << <<"get_system_mouse_cursor", selected>> >>]
    /\ UNCHANGED <<width, height, title, frame_count, handler_queue, looping,
                   redraw, setup_done, target_frame_rate, time_since_last_frame,
                   interval, pc, drain_index>>
    /\ UNCHANGED histvars

\* lines 298-300: schedule_interval(update, 1/(target_frame_rate + 1)); the
\* interval is the fraction <<numerator, denominator>> of a second
ScheduledInterval(rate) == <<1, rate + 1>>

run ==
    /\ pc = "init"
    /\ interval' = ScheduledInterval(target_frame_rate)
    /\ pc' = "idle"
    /\ UNCHANGED <<width, height, title, frame_count, handler_queue,
                   looping, redraw, setup_done, target_frame_rate,
                   time_since_last_frame, window, drain_index>>
    /\ UNCHANGED histvars

\* ---------------------------------------------------------------- the queue

\* The callback queued with the n-th event: the handlers of two event kinds
\* (lines 74-79) take turns, so that neighbours in the queue differ.
HandlerOf(n) == IF n % 2 = 1 THEN "mouse_pressed" ELSE "key_pressed"

\* The platform's input dispatch appends (callback, event) at arbitrary times,
\* from its own context; events are numbered in arrival order.
append_event ==
    /\ pc # "init"
    /\ appended < MaxEvents
    /\ appended' = appended + 1
    /\ handler_queue' = Append(handler_queue, <<HandlerOf(appended + 1), appended + 1>>)
    /\ UNCHANGED <<width, height, title, frame_count, looping, redraw,
                   setup_done, target_frame_rate, time_since_last_frame,
                   window, interval, pc, drain_index>>
    /\ UNCHANGED <<tick_calls, tick_dispatched, setup_calls, draw_calls, raises,
                   dispatch_count, redraw_called, requested_since_draw,
                   pending_request>>

\* ---------------------------------------------------------------- update

\* line 229 without `or builtins.frame_count == 0`
Branch_needs_due(done, due, fc, l, r) ==
    IF ~done THEN "setup"
    ELSE IF due
         THEN (IF should_draw(l, r) THEN "draw" ELSE "drain")
         ELSE "post"

\* lines 225, 229, 230: which branch the tick takes, given the accumulated time
Branch(done, due, fc, l, r) ==
    IF ~done THEN "setup"
    ELSE IF due \/ fc = 0
         THEN (IF should_draw(l, r) THEN "draw" ELSE "drain")
         ELSE "post"

\* lines 226, 231: builtins.frame_count += 1 in front of the hook's call
NewFrameCount_every_tick(b, fc) == fc + 1
NewFrameCount(b, fc) == IF b \in {"setup", "draw"} THEN fc + 1 ELSE fc

\* lines 220-232, up to the call of the hook (or to the for loop, or line 239)
update(dt) ==
    /\ pc = "idle"
    /\ frame_count < MaxFrames
    /\ time_since_last_frame' = time_since_last_frame + dt
    /\ LET due == correct_frame_rate(time_since_last_frame + dt, target_frame_rate)
           b == Branch(setup_done, due, frame_count, looping, redraw)
       IN /\ pc' = b
          /\ frame_count' = NewFrameCount(b, frame_count)
          /\ requested_since_draw' = IF b = "draw" THEN FALSE
                                     ELSE requested_since_draw
          /\ tick_calls' = IF b \in {"setup", "draw"} THEN <<"pre_render", b>>
                           ELSE <<"pre_render">>
          /\ setup_calls' = IF b = "setup" THEN setup_calls + 1 ELSE setup_calls
          /\ draw_calls' = IF b = "draw" THEN draw_calls + 1 ELSE draw_calls
    /\ drain_index' = 0
    /\ tick_dispatched' = <<>>
    /\ UNCHANGED <<width, height, title, handler_queue, looping, redraw, setup_done,
                   target_frame_rate, window, interval>>
    /\ UNCHANGED <<raises, dispatch_count, appended, redraw_called,
                   pending_request>>

\* setup_done = True is lost (as without the global statement of line 217)
setup_return_forgets ==
    /\ pc = "setup"
    /\ pc' = "post"
    /\ UNCHANGED <<width, height, title, frame_count, handler_queue,
                   looping, redraw, setup_done, target_frame_rate,
                   time_since_last_frame, window, interval, drain_index>>
    /\ UNCHANGED histvars

\* line 229 an `if` instead of the `elif`: the setup tick goes on to draw
setup_return_falls_through ==
    /\ pc = "setup"
    /\ setup_done' = TRUE
    /\ pc' = "draw"
    /\ frame_count' = frame_count + 1
    /\ tick_calls' = Append(tick_calls, "draw")
    /\ draw_calls' = draw_calls + 1
    /\ requested_since_draw' = FALSE
    /\ UNCHANGED <<width, height, title, handler_queue,
                   looping, redraw, target_frame_rate, time_since_last_frame,
                   window, interval, drain_index>>
    /\ UNCHANGED <<tick_dispatched, setup_calls, raises, dispatch_count, appended,
                   redraw_called, pending_request>>

\* lines 227-228: setup() returned
setup_return ==
    /\ pc = "setup"
    /\ setup_done' = TRUE
    /\ pc' = "post"
    /\ UNCHANGED <<width, height, title, frame_count, handler_queue,
                   looping, redraw, target_frame_rate, time_since_last_frame,
                   window, interval, drain_index>>
    /\ UNCHANGED histvars

\* redraw = False is lost (as without the global statement of line 216)
draw_return_keeps_flag ==
    /\ pc = "draw"
    /\ pc' = "drain"
    /\ UNCHANGED <<width, height, title, frame_count, handler_queue,
                   looping, redraw, setup_done, target_frame_rate,
                   time_since_last_frame, window, interval, drain_index>>
    /\ UNCHANGED histvars

\* lines 232-233: draw() returned
draw_return ==
    /\ pc = "draw"
    /\ redraw' = "False"
    /\ pending_request' = FALSE
    /\ pc' = "drain"
    /\ UNCHANGED <<width, height, title, frame_count, handler_queue,
                   looping, setup_done, target_frame_rate, time_since_last_frame,
                   window, interval, drain_index>>
    /\ UNCHANGED <<tick_calls, tick_dispatched, setup_calls, draw_calls, raises,
                   dispatch_count, appended, redraw_called, requested_since_draw>>

\* line 234: the list iterator yields the entry at its index
next_entry_reversed(q, i) == q[Len(q) - i]
next_entry(q, i) == q[i + 1]

\* lines 234-235: the for loop takes the next entry and calls function(event)
drain_next ==
    /\ pc = "drain"
    /\ drain_index < Len(handler_queue)
    /\ LET entry == next_entry(handler_queue, drain_index)
       IN /\ tick_dispatched' = Append(tick_dispatched, entry)
          /\ dispatch_count' = [dispatch_count EXCEPT ![entry[2]] = @ + 1]
    /\ tick_calls' = Append(tick_calls, "callback")
    /\ drain_index' = drain_index + 1
    /\ pc' = "handler"
    /\ UNCHANGED <<width, height, title, frame_count, handler_queue,
                   looping, redraw, setup_done, target_frame_rate,
                   time_since_last_frame, window, interval>>
    /\ UNCHANGED <<setup_calls, draw_calls, raises, appended, redraw_called,
                   requested_since_draw, pending_request>>

\* line 235: function(event) returned
handler_return ==
    /\ pc = "handler"
    /\ pc' = "drain"
    /\ UNCHANGED <<width, height, title, frame_count, handler_queue,
                   looping, redraw, setup_done, target_frame_rate,
                   time_since_last_frame, window, interval, drain_index>>
    /\ UNCHANGED histvars

\* line 234: the iterator is exhausted, the loop ends
drain_done ==
    /\ pc = "drain"
    /\ drain_index >= Len(handler_queue)
    /\ pc' = "clear"
    /\ UNCHANGED <<width, height, title, frame_count, handler_queue,
                   looping, redraw, setup_done, target_frame_rate,
                   time_since_last_frame, window, interval, drain_index>>
    /\ UNCHANGED histvars

\* lines 236-237 as if line 233 came after the drain
clear_resets_redraw ==
    /\ pc = "clear"
    /\ handler_queue' = <<>>
    /\ time_since_last_frame' = 0
    /\ redraw' = "False"
    /\ pending_request' = FALSE
    /\ pc' = "post"
    /\ tick_dispatched' = <<>>
    /\ UNCHANGED <<width, height, title, frame_count, looping,
                   setup_done, target_frame_rate, window, interval, drain_index>>
    /\ UNCHANGED <<tick_calls, setup_calls, draw_calls, raises,
                   dispatch_count, appended, redraw_called, requested_since_draw>>

\* lines 236-237
clear ==
    /\ pc = "clear"
    /\ handler_queue' = <<>>
    /\ time_since_last_frame' = 0
    /\ pc' = "post"
    /\ tick_dispatched' = <<>>
    /\ UNCHANGED <<width, height, title, frame_count, looping, redraw,
                   setup_done, target_frame_rate, window, interval, drain_index>>
    /\ UNCHANGED <<tick_calls, setup_calls, draw_calls, raises,
                   dispatch_count, appended, redraw_called, requested_since_draw,
                   pending_request>>

\* line 239
post_render ==
    /\ pc = "post"
    /\ tick_calls' = Append(tick_calls, "post_render")
    /\ pc' = "idle"
    /\ UNCHANGED <<width, height, title, frame_count, handler_queue,
                   looping, redraw, setup_done, target_frame_rate,
                   time_since_last_frame, window, interval, drain_index>>
    /\ UNCHANGED <<tick_dispatched, setup_calls, draw_calls, raises,
                   dispatch_count, appended, redraw_called, requested_since_draw,
                   pending_request>>

\* the raise as if line 228 ran whether or not setup returned
hook_raise_marks_done ==
    /\ pc \in {"setup", "draw", "handler"}
    /\ TotalRaises < MaxRaises
    /\ raises' = [raises EXCEPT ![pc] = @ + 1]
    /\ pc' = "idle"
    /\ setup_done' = (setup_done \/ pc = "setup")
    /\ UNCHANGED <<width, height, title, frame_count, handler_queue,
                   looping, redraw, target_frame_rate,
                   time_since_last_frame, window, interval, drain_index>>
    /\ tick_dispatched' = <<>>
    /\ UNCHANGED <<tick_calls, setup_calls, draw_calls,
                   dispatch_count, appended, redraw_called, requested_since_draw,
                   pending_request>>

\* the raise as if the loop of line 234 popped each entry it dispatched
hook_raise_drops_dispatched ==
    /\ pc \in {"setup", "draw", "handler"}
    /\ TotalRaises < MaxRaises
    /\ raises' = [raises EXCEPT ![pc] = @ + 1]
    /\ pc' = "idle"
    /\ handler_queue' =
         IF pc = "handler"
         THEN SubSeq(handler_queue, drain_index + 1, Len(handler_queue))
         ELSE handler_queue
    /\ UNCHANGED <<width, height, title, frame_count,
                   looping, redraw, setup_done, target_frame_rate,
                   time_since_last_frame, window, interval, drain_index>>
    /\ tick_dispatched' = <<>>
    /\ UNCHANGED <<tick_calls, setup_calls, draw_calls,
                   dispatch_count, appended, redraw_called, requested_since_draw,
                   pending_request>>

\* the raise as if line 239 were in a finally clause
hook_raise_post_renders ==
    /\ pc \in {"setup", "draw", "handler"}
    /\ TotalRaises < MaxRaises
    /\ raises' = [raises EXCEPT ![pc] = @ + 1]
    /\ pc' = "idle"
    /\ UNCHANGED <<width, height, title, frame_count, handler_queue,
                   looping, redraw, setup_done, target_frame_rate,
                   time_since_last_frame, window, interval, drain_index>>
    /\ tick_dispatched' = <<>>
    /\ tick_calls' = Append(tick_calls, "post_render")
    /\ UNCHANGED <<setup_calls, draw_calls,
                   dispatch_count, appended, redraw_called, requested_since_draw,
                   pending_request>>

\* lines 227, 232, 235: the hook raises; nothing in update catches it, so the
\* rest of the tick is skipped and the exception leaves update
hook_raise ==
    /\ pc \in {"setup", "draw", "handler"}
    /\ TotalRaises < MaxRaises
    /\ raises' = [raises EXCEPT ![pc] = @ + 1]
    /\ pc' = "idle"
    /\ UNCHANGED <<width, height, title, frame_count, handler_queue,
                   looping, redraw, setup_done, target_frame_rate,
                   time_since_last_frame, window, interval, drain_index>>
    /\ tick_dispatched' = <<>>
    /\ UNCHANGED <<tick_calls, setup_calls, draw_calls,
                   dispatch_count, appended, redraw_called, requested_since_draw,
                   pending_request>>

\* ---------------------------------------------------------------- specification
Next ==
    \/ no_loop
    \/ loop
    \/ call_redraw
    \/ \E a \in SizeArgs : size(a[1], a[2])
    \/ \E t \in TitleArgs : set_title(t)
    \/ \E fm \in FmValues : set_frame_rate(fm)
    \/ run
    \/ append_event
    \/ \E dt \in DtValues : update(dt)
    \/ setup_return
    \/ draw_return
    \/ drain_next
    \/ handler_return
    \/ drain_done
    \/ clear
    \/ post_render
    \/ hook_raise

Spec == Init /\ [][Next]_vars

\* The settings alone: the controls that only store a value and hand it to
\* the window, called with a wider choice of arguments.
NextControls ==
    \/ \E fm \in RateArgs : set_frame_rate(fm)
    \/ \E a \in SizeArgs : size(a[1], a[2])
    \/ \E t \in TitleArgs : set_title(t)
    \/ \E k \in CursorArgs, found \in BOOLEAN : cursor(k, found)
    \/ no_cursor

SpecControls == Init /\ [][NextControls]_vars


\* ---------------------------------------------------------------- claims

\* How often the call x occurs in the tick's calls
Count(x, calls) == Cardinality({i \in DOMAIN calls : calls[i] = x})

\* A step that is the start of an update call
UpdateStep == pc = "idle" /\ pc' # "idle"

\* The spec's dueForFrame: timeSinceLastFrame > 1/targetFrameRate
DueForFrame(t, rate) == t * rate > OneSecond

C2_DrawOnlyAfterSetup ==
    /\ pc = "draw" => setup_done /\ tick_calls = <<"pre_render", "draw">>
    /\ draw_calls > 0 => setup_done /\ setup_calls > raises["setup"]
    /\ Count("setup", tick_calls) = 0 \/ Count("draw", tick_calls) = 0

C2_Witness == pc = "draw" /\ draw_calls = 1 /\ frame_count = 1


\* C3 as stated: a tick that starts while looping is false and no redraw()
\* call has ever been made does not invoke the draw hook.
C3_NoDrawWithoutRequest ==
    [][UpdateStep /\ ~looping /\ ~redraw_called => pc' # "draw"]_vars

C5_LoopingDrawsEveryEligibleTick ==
    /\ [](Count("draw", tick_calls) <= 1)
    /\ [][UpdateStep /\ setup_done /\ looping
            /\ (DueForFrame(time_since_last_frame', target_frame_rate)
                \/ frame_count = 0)
          => /\ pc' = "draw"
             /\ draw_calls' = draw_calls + 1
             /\ tick_calls' = <<"pre_render", "draw">>]_vars

C5_Witness ==
    /\ pc = "draw"
    /\ looping
    /\ frame_count = 2
    /\ tick_calls = <<"pre_render", "draw">>
    /\ DueForFrame(time_since_last_frame, target_frame_rate)

\* C6: frame_count starts at -1 and is always one less than the number of
\* setup and draw invocations made; a step never decreases it, and changes
\* it only by adding 1 as an update invokes setup or draw.
C6_FrameCountCountsHooks ==
    /\ [](frame_count = setup_calls + draw_calls - 1)
    /\ [][frame_count' >= frame_count]_vars
    /\ [][frame_count' # frame_count
          => /\ frame_count' = frame_count + 1
             /\ UpdateStep
             /\ pc' \in {"setup", "draw"}]_vars
    /\ [][UpdateStep /\ pc' \in {"setup", "draw"}
          => frame_count' = frame_count + 1]_vars

C6_Witness ==
    /\ frame_count = 2
    /\ pc = "post"
    /\ Count("draw", tick_calls) = 0
    /\ Count("callback", tick_calls) = 1
    /\ window.size # <<DefaultWidth * 10, DefaultHeight * 10>>


\* C7: a drain calls the queued (callback, event) pairs in their order of
\* arrival, each callback with the event queued with it: what the loop has
\* dispatched is always the front of the queue, it is the whole queue when
\* the loop ends, and the queue is empty right after the drain.
C7_DrainIsFifo ==
    /\ [](pc \in {"drain", "handler", "clear"}
          => /\ drain_index <= Len(handler_queue)
             /\ tick_dispatched = SubSeq(handler_queue, 1, drain_index))
    /\ [](\A i \in DOMAIN handler_queue :
             /\ handler_queue[i][1] = HandlerOf(handler_queue[i][2])
             /\ i > 1 => handler_queue[i][2] = handler_queue[i - 1][2] + 1)
    /\ [][pc = "drain" /\ pc' = "clear" => tick_dispatched = handler_queue]_vars
    /\ [][pc = "clear" /\ pc' = "post" => handler_queue' = <<>>]_vars

C7_Witness ==
    /\ pc = "clear"
    /\ Len(tick_dispatched) = 2
    /\ tick_dispatched = handler_queue

\* C8 as stated: whatever the interleaving of appends with the drain, every
\* appended event is still queued or has been dispatched, and none has been
\* dispatched twice (stated for runs in which no hook raises).
C8_NoEventLostOrRepeated ==
    TotalRaises = 0 =>
        \A e \in 1..appended :
            /\ dispatch_count[e] <= 1
            /\ dispatch_count[e] = 1
               \/ \E i \in DOMAIN handler_queue : handler_queue[i][2] = e

\* C9 as stated: every update call calls pre_render once, before its hook
\* and callbacks, and post_render once, after them, so that a tick that is
\* over has ended with post_render.
C9_RenderBracketsEveryTick ==
    /\ tick_calls # <<>>
       => /\ Head(tick_calls) = "pre_render"
          /\ Count("pre_render", tick_calls) = 1
    /\ Count("post_render", tick_calls) <= 1
    /\ Count("post_render", tick_calls) = 1
       => tick_calls[Len(tick_calls)] = "post_render"
    /\ pc \in {"init", "idle"} /\ tick_calls # <<>>
       => tick_calls[Len(tick_calls)] = "post_render"

\* C10 as stated: once run() has scheduled update, the scheduled interval is
\* 1/(target_frame_rate + 1) for the current target_frame_rate.
C10_IntervalFollowsFrameRate ==
    pc # "init" => interval = <<1, target_frame_rate + 1>>


\* round(x) of a number given in tenths: to the nearest integer, a half to
\* the even neighbour
RoundOfTenths(x) ==
    LET q == x \div 10
        r == x % 10
    IN IF r < 5 THEN q
       ELSE IF r > 5 THEN q + 1
       ELSE IF q % 2 = 0 THEN q ELSE q + 1

\* C11 as stated: set_frame_rate(rate) leaves target_frame_rate equal to
\* max(1, round(rate)), and target_frame_rate is at least 1 in every state.
C11_FrameRateIsRoundedAndFloored ==
    /\ [](target_frame_rate >= 1)
    /\ [][\A fm \in RateArgs :
            set_frame_rate(fm) => target_frame_rate' = Max(1, RoundOfTenths(fm))]_vars


\* The event numbered e is in the queue q
Queued(q, e) == \E i \in DOMAIN q : q[i][2] = e

\* C12 as stated: with looping false every eligible tick after setup still
\* goes on to the drain, and an event queued while looping is false gets
\* dispatched: no step taken while looping is false removes an event from the
\* queue that has not been dispatched (stated for runs in which no hook
\* raises).
C12_EventsDispatchedWhileNotLooping ==
    /\ [][UpdateStep /\ setup_done /\ ~looping
            /\ (DueForFrame(time_since_last_frame', target_frame_rate)
                \/ frame_count = 0)
          => pc' \in {"draw", "drain"}]_vars
    /\ [][~looping /\ TotalRaises = 0
          => \A e \in 1..appended :
                Queued(handler_queue, e) /\ dispatch_count[e] = 0
                => Queued(handler_queue', e) \/ dispatch_count'[e] > 0]_vars


\* C13: a tick that starts with setup done and frame_count 0 is eligible
\* whatever its dt; with looping true it invokes draw and makes frame_count
\* 1, and the end of its drain empties the queue and resets the accumulator.
\* With target_frame_rate 10 a first update(0.11) invokes setup only and
\* leaves frame_count 0.
C13_FirstFrameAlwaysDrawn ==
    /\ [][UpdateStep /\ setup_done /\ frame_count = 0
          => pc' \in {"draw", "drain"}]_vars
    /\ [][UpdateStep /\ setup_done /\ frame_count = 0 /\ looping
          => /\ pc' = "draw"
             /\ frame_count' = 1
             /\ tick_calls' = <<"pre_render", "draw">>]_vars
    /\ [][pc = "clear" /\ pc' = "post"
          => time_since_last_frame' = 0 /\ handler_queue' = <<>>]_vars
    /\ [](pc = "post" /\ Count("draw", tick_calls) = 1
          => time_since_last_frame = 0)
    /\ [][UpdateStep /\ target_frame_rate = 10 /\ frame_count = -1
            /\ time_since_last_frame' = time_since_last_frame + 11
          => /\ pc' = "setup"
             /\ frame_count' = 0
             /\ tick_calls' = <<"pre_render", "setup">>]_vars
    /\ [](pc = "post" /\ Count("setup", tick_calls) = 1 /\ raises["setup"] = 0
          => frame_count = 0)

C13_Witness ==
    /\ pc = "clear"
    /\ target_frame_rate = 10
    /\ time_since_last_frame = 22
    /\ frame_count = 1
    /\ tick_calls = <<"pre_render", "draw">>
    /\ looping
    /\ TotalRaises = 0


\* C14: cursor(kind) with a kind that is not a key of the cursor map makes
\* the window calls of cursor('ARROW'), with the same arguments, and leaves
\* the cursor visible.
C14_UnknownCursorIsArrow ==
    [][\A k \in CursorArgs \ DOMAIN cursor_map, found \in BOOLEAN :
         cursor(k, found)
         => /\ window'.mouse_visible
            /\ window'.calls =
                 << <<"get_system_mouse_cursor", cursor_map["ARROW"]>>,
                    <<"set_mouse_visible", <<"bool", "True">>>>,
                    <<"set_mouse_cursor",
                      <<"cursor", cursor_map["ARROW"][2]>>>> >>]_vars


\* C15: size(w, h) and title(s) store the value they forward to the window:
\* after each call the stored width and height are the size handed to
\* set_size and the stored title is the caption handed to set_caption, for
\* every input, non-integer sizes included.
C15_StoredEqualsForwarded ==
    /\ [][\A a \in SizeArgs :
            size(a[1], a[2])
            => window'.size = <<width' * 10, height' * 10>>]_vars
    /\ [][\A t \in TitleArgs :
            set_title(t) => window'.caption = title']_vars


\* C16: draw is rate-capped. time_since_last_frame is the sum of the dt of
\* the ticks since its last reset (it changes only by a tick adding its dt
\* and by the reset at the end of a drain); a tick that starts with
\* frame_count >= 1 invokes draw only if that sum is strictly greater than
\* 1/target_frame_rate, and a sum exactly equal to 1/target_frame_rate
\* invokes neither draw nor the drain.
C16_DrawIsRateCapped ==
    /\ [][time_since_last_frame' # time_since_last_frame
          => \/ /\ UpdateStep
                /\ \E dt \in DtValues :
                     time_since_last_frame' = time_since_last_frame + dt
             \/ /\ pc = "clear"
                /\ time_since_last_frame' = 0]_vars
    /\ [][UpdateStep /\ frame_count >= 1 /\ pc' = "draw"
          => time_since_last_frame' * target_frame_rate > OneSecond]_vars
    /\ [][UpdateStep /\ frame_count >= 1
            /\ time_since_last_frame' * target_frame_rate = OneSecond
          => /\ pc' # "draw"
             /\ setup_done => pc' = "post"]_vars

C16_Witness ==
    /\ pc = "post"
    /\ setup_done
    /\ frame_count >= 1
    /\ time_since_last_frame * target_frame_rate = OneSecond
    /\ tick_calls = <<"pre_render">>
    /\ looping


\* C17: a draw hook that raises aborts the rest of its tick: no queued
\* callback is invoked, the queue is not cleared, post_render is not called,
\* time_since_last_frame is not reset and the redraw flag is not cleared;
\* frame_count keeps the increment made before draw was invoked.
C17_RaisingDrawAbortsTick ==
    /\ [][UpdateStep /\ pc' = "draw" => frame_count' = frame_count + 1]_vars
    /\ [][pc = "draw" /\ pc' = "idle"
          => /\ raises'["draw"] = raises["draw"] + 1
             /\ UNCHANGED <<handler_queue, time_since_last_frame, redraw,
                            frame_count, dispatch_count>>
             /\ tick_calls' = <<"pre_render", "draw">>]_vars
    /\ [][pc = "draw" /\ pc' # "draw" /\ raises' = raises
          => pc' \in {"drain"}]_vars

C17_Witness ==
    /\ pc = "idle"
    /\ raises["draw"] = 1
    /\ tick_calls = <<"pre_render", "draw">>
    /\ Len(handler_queue) > 0
    /\ time_since_last_frame > 0
    /\ redraw = "True"
    /\ frame_count = 1


\* C18: a setup hook that raises leaves setup_done false and frame_count
\* incremented; every update made while setup_done is false increments
\* frame_count and invokes setup again; setup_done becomes true only when a
\* setup invocation returns normally and is never false afterwards.
C18_RaisingSetupIsRetried ==
    /\ [][pc = "setup" /\ pc' = "idle"
          => /\ raises'["setup"] = raises["setup"] + 1
             /\ ~setup_done'
             /\ frame_count' = frame_count]_vars
    /\ [][UpdateStep /\ ~setup_done
          => /\ pc' = "setup"
             /\ frame_count' = frame_count + 1
             /\ setup_calls' = setup_calls + 1]_vars
    /\ [](~setup_done => frame_count = setup_calls - 1)
    /\ [][~setup_done /\ setup_done'
          => pc = "setup" /\ pc' = "post" /\ raises' = raises]_vars
    /\ [][setup_done => setup_done']_vars

C18_Witness ==
    /\ pc = "setup"
    /\ ~setup_done
    /\ raises["setup"] = 1
    /\ setup_calls = 2
    /\ frame_count = 1


\* C19: a queued callback that raises leaves the event queue as it was: the
\* queue loses entries only by the clear that follows a completed loop.
\* Every drain starts at the first queued entry, so the entries dispatched
\* before the failure are dispatched again by the next drain.
C19_RaisingCallbackKeepsQueue ==
    /\ [][pc = "handler" /\ pc' = "idle"
          => /\ raises'["handler"] = raises["handler"] + 1
             /\ handler_queue' = handler_queue
             /\ time_since_last_frame' = time_since_last_frame]_vars
    /\ [][handler_queue' # handler_queue
          => \/ pc = "clear" /\ handler_queue' = <<>>
             \/ /\ Len(handler_queue') = Len(handler_queue) + 1
                /\ SubSeq(handler_queue', 1, Len(handler_queue))
                     = handler_queue]_vars
    /\ [][pc \notin {"drain", "handler"} /\ pc' = "drain"
          => drain_index' = 0]_vars
    /\ [][pc = "drain" /\ pc' = "handler" /\ drain_index = 0
          => dispatch_count'[handler_queue[1][2]]
               = dispatch_count[handler_queue[1][2]] + 1]_vars

C19_Witness ==
    /\ pc = "handler"
    /\ raises["handler"] = 1
    /\ Len(handler_queue) = 2
    /\ drain_index = 1
    /\ dispatch_count[1] = 2
    /\ dispatch_count[2] = 1


====
